---- MODULE Spec2Model ----
(***************************************************************************)
(* Model of app/app.js: the WebSocket message dispatcher                   *)
(* (socket.onmessage), the socket lifecycle handlers and the upload        *)
(* button handler (uploadBtn.onclick).                                     *)
(*                                                                         *)
(* JavaScript strings are sequences of one-character strings, so that      *)
(* startsWith, split, slice and join are computed character by character.  *)
(* console.log and addLog only write to the console; the console is not    *)
(* part of the state.                                                      *)
(***************************************************************************)
EXTENDS Integers, Sequences, FiniteSets, TLC

VARIABLES
    socketState,      \* readyState of `socket`: "connecting", "open", "closed"
    data,             \* the data of the message event delivered last
    event,            \* what the last onmessage call parsed and dispatched
    myId,             \* let myId
    currentClientId,  \* let currentClientId
    resultsList,      \* the <li> children of resultsList, in document order
    pc,               \* where uploadBtn.onclick is suspended: "idle", "fetch", "json"
    clientId,         \* const clientId of the suspended onclick call
    uploadBtnDisabled,\* uploadBtn.disabled
    uploadBtnText,    \* uploadBtn.textContent
    alerts            \* the alert() dialogs raised by the last onclick call

vars == <<socketState, data, event, myId, currentClientId, resultsList,
          pc, clientId, uploadBtnDisabled, uploadBtnText, alerts>>

dispatcherVars == <<data, event, myId, currentClientId, resultsList>>
uploadVars == <<pc, clientId, uploadBtnDisabled, uploadBtnText, alerts>>

(***************************************************************************)
(* Bounds                                                                  *)
(***************************************************************************)
\* The result list is not grown beyond this many entries.
MaxResults == 2
\* Longest body, in characters, of the lines the parser is exercised on.
MaxBody == 5

(***************************************************************************)
(* null / undefined, distinct from every string                            *)
(***************************************************************************)
Null == <<"null">>

(***************************************************************************)
(* String literals of app.js                                               *)
(***************************************************************************)
YourIdPrefix == <<"Y","o","u","r"," ","I","D",":"," ">>
DetectionPrefix == <<"D","E","T","E","C","T","I","O","N",":">>
PageCountPrefix == <<"P","A","G","E","_","C","O","U","N","T",":">>
PageResultPrefix == <<"P","A","G","E","_","R","E","S","U","L","T",":">>
Colon == <<":">>
ColonSpace == <<":"," ">>
ClientPrefix == <<"c","l","i","e","n","t","_">>
ReadyText == "Upload & Analyze"
UploadingText == "Uploading..."
\* parts.length >= 5, parts.slice(4)
MinDetectionParts == 5
MessageStart == 4
\* parts.length >= 3
MinPageCountParts == 3
\* parts.length >= 7
MinPageResultParts == 7

(***************************************************************************)
(* String.prototype.startsWith, split, Array.prototype.slice and join      *)
(***************************************************************************)
\* sep occurs in s at (1-based) position i
OccursAt(s, sep, i) ==
    /\ i + Len(sep) - 1 <= Len(s)
    /\ SubSeq(s, i, i + Len(sep) - 1) = sep

startsWith(s, prefix) == OccursAt(s, prefix, 1)

RECURSIVE SplitFrom(_, _, _, _)
\* the fields of s from position i on, cur being the field under construction
SplitFrom(s, sep, i, cur) ==
    IF i > Len(s) THEN <<cur>>
    ELSE IF OccursAt(s, sep, i)
         THEN <<cur>> \o SplitFrom(s, sep, i + Len(sep), <<>>)
         ELSE SplitFrom(s, sep, i + 1, Append(cur, s[i]))

\* s.split(sep), sep not empty
split(s, sep) == SplitFrom(s, sep, 1, <<>>)

\* a slip: the start index is off by one
sliceFromBefore(parts, start) == SubSeq(parts, start, Len(parts))

\* parts.slice(start), start a 0-based index
slice(parts, start) == SubSeq(parts, start + 1, Len(parts))

RECURSIVE join(_, _)
\* parts.join(sep)
join(parts, sep) ==
    IF Len(parts) = 0 THEN <<>>
    ELSE IF Len(parts) = 1 THEN parts[1]
    ELSE parts[1] \o sep \o join(Tail(parts), sep)

\* parts[i], i a 0-based index; undefined past the end
At(parts, i) == IF i + 1 <= Len(parts) THEN parts[i + 1] ELSE Null

(***************************************************************************)
(* parseFloat and parseInt.  Both skip leading white space, accept a sign  *)
(* and read the longest numeric prefix; without one the result is NaN.     *)
(* A number is kept as mantissa / 10^scale.  Exponents, "Infinity" and the *)
(* "0x" prefix of parseInt do not occur in the lines of this model.        *)
(***************************************************************************)
Digits == <<"0","1","2","3","4","5","6","7","8","9">>
IsDigit(c) == \E d \in 1..Len(Digits) : Digits[d] = c
DigitVal(c) == (CHOOSE d \in 1..Len(Digits) : Digits[d] = c) - 1
IsWhiteSpace(c) == c = " "

NaN == [nan |-> TRUE, neg |-> FALSE, mantissa |-> 0, scale |-> 0]

RECURSIVE SkipWhiteSpace(_, _)
SkipWhiteSpace(s, i) ==
    IF i <= Len(s) /\ IsWhiteSpace(s[i]) THEN SkipWhiteSpace(s, i + 1) ELSE i

RECURSIVE DigitsEnd(_, _)
\* the first position from i on that holds no digit
DigitsEnd(s, i) ==
    IF i <= Len(s) /\ IsDigit(s[i]) THEN DigitsEnd(s, i + 1) ELSE i

RECURSIVE DigitsValue(_)
DigitsValue(ds) ==
    IF Len(ds) = 0 THEN 0
    ELSE 10 * DigitsValue(SubSeq(ds, 1, Len(ds) - 1)) + DigitVal(ds[Len(ds)])

SignEnd(s, i) == IF i <= Len(s) /\ s[i] \in {"+", "-"} THEN i + 1 ELSE i
IsNegative(s, i) == i <= Len(s) /\ s[i] = "-"

parseFloat(s) ==
    LET i0 == SkipWhiteSpace(s, 1)
        i1 == SignEnd(s, i0)
        i2 == DigitsEnd(s, i1)
        hasDot == i2 <= Len(s) /\ s[i2] = "."
        i3 == IF hasDot THEN DigitsEnd(s, i2 + 1) ELSE i2
        intDigits == SubSeq(s, i1, i2 - 1)
        fracDigits == IF hasDot THEN SubSeq(s, i2 + 1, i3 - 1) ELSE <<>>
    IN  IF Len(intDigits) + Len(fracDigits) = 0 THEN NaN
        ELSE [nan |-> FALSE, neg |-> IsNegative(s, i0),
              mantissa |-> DigitsValue(intDigits \o fracDigits),
              scale |-> Len(fracDigits)]

parseInt(s) ==
    LET i0 == SkipWhiteSpace(s, 1)
        i1 == SignEnd(s, i0)
        i2 == DigitsEnd(s, i1)
        intDigits == SubSeq(s, i1, i2 - 1)
    IN  IF Len(intDigits) = 0 THEN NaN
        ELSE [nan |-> FALSE, neg |-> IsNegative(s, i0),
              mantissa |-> DigitsValue(intDigits), scale |-> 0]

(***************************************************************************)
(* generateClientId: 'client_' + Math.random().toString(36).substr(2, 8).  *)
(* The suffix is what Math.random() yields: "i" for 0.5 ("0.i"), "9" for   *)
(* 0.25 ("0.9").                                                           *)
(***************************************************************************)
RandomSuffixes == {<<"i">>, <<"9">>}
generateClientId(suffix) == ClientPrefix \o suffix
GeneratedIds == {generateClientId(suffix) : suffix \in RandomSuffixes}

(***************************************************************************)
(* The lines the peer sends                                                *)
(***************************************************************************)
OtherClientId == <<"x">>
Statuses == {<<"s">>}
Confidences == {<<".","9">>, <<"h">>}
Messages == {<<<<"o","k">>>>, <<<<"o","k">>, <<"x">>>>}

DetectionLines ==
    { join(<<<<"D","E","T","E","C","T","I","O","N">>, cid, st, conf>> \o msg, Colon) :
        cid \in GeneratedIds \cup {OtherClientId}, st \in Statuses,
        conf \in Confidences, msg \in Messages }
    \cup { <<"D","E","T","E","C","T","I","O","N",":">>, <<"D","E","T","E","C","T","I","O","N",":","x",":","s",":",".","9">> }

PageLines ==
    { <<"P","A","G","E","_","C","O","U","N","T",":">>, <<"P","A","G","E","_","C","O","U","N","T",":","x",":","3">>, <<"P","A","G","E","_","C","O","U","N","T",":","x",":","m">>,
      <<"P","A","G","E","_","R","E","S","U","L","T",":","x",":","1">>, <<"P","A","G","E","_","R","E","S","U","L","T",":","x",":","1",":","p",":",".","7",":","6",":","8">>,
      <<"P","A","G","E","_","R","E","S","U","L","T",":","x",":","a",":","b",":","c",":","d",":","e">> }

IdentityLines ==
    { <<"Y","o","u","r"," ","I","D",":"," ","a">>, <<"Y","o","u","r"," ","I","D",":"," ","b">>, <<"Y","o","u","r"," ","I","D",":"," ","a",":"," ","b">> }

UnknownLines == { <<"h","i">>, <<"D","E","T","E","C","T","I","O","N">> }

Lines == IdentityLines \cup DetectionLines \cup PageLines \cup UnknownLines

\* every string of at most n characters over the alphabet
RECURSIVE Strings(_, _)
Strings(alphabet, n) ==
    IF n = 0 THEN {<<>>}
    ELSE LET shorter == Strings(alphabet, n - 1)
         IN  shorter \cup {Append(s, c) : s \in shorter, c \in alphabet}

BodyAlphabet == {":", " ", "a", "1"}
ParseLines ==
    { prefix \o body : prefix \in {YourIdPrefix, DetectionPrefix},
                       body \in Strings(BodyAlphabet, MaxBody) }

(***************************************************************************)
(* The inbound event parsed from one line (the locals of each branch of    *)
(* socket.onmessage)                                                       *)
(***************************************************************************)
NoEvent == [tag |-> "None"]

\* a slip: the index is off by one
IdentityEventFirstPart(d) ==
    [tag |-> "IdentityAnnounced", id |-> At(split(d, ColonSpace), 0)]

\* myId = data.split(': ')[1]
IdentityEvent(d) ==
    [tag |-> "IdentityAnnounced", id |-> At(split(d, ColonSpace), 1)]

\* a slip: the field count is tested against one too few
DetectionEventLoose(d) ==
    LET parts == split(d, Colon)
    IN  IF Len(parts) >= MinDetectionParts - 1
        THEN [tag |-> "Detection",
              clientId |-> At(parts, 1),
              status |-> At(parts, 2),
              confidence |-> parseFloat(At(parts, 3)),
              message |-> join(slice(parts, MessageStart), Colon)]
        ELSE NoEvent

\* a slip: a confidence that does not parse aborts the branch
DetectionEventStrict(d) ==
    LET parts == split(d, Colon)
    IN  IF Len(parts) >= MinDetectionParts /\ parseFloat(At(parts, 3)) # NaN
        THEN [tag |-> "Detection",
              clientId |-> At(parts, 1),
              status |-> At(parts, 2),
              confidence |-> parseFloat(At(parts, 3)),
              message |-> join(slice(parts, MessageStart), Colon)]
        ELSE NoEvent

DetectionEvent(d) ==
    LET parts == split(d, Colon)
    IN  IF Len(parts) >= MinDetectionParts
        THEN [tag |-> "Detection",
              clientId |-> At(parts, 1),
              status |-> At(parts, 2),
              confidence |-> parseFloat(At(parts, 3)),
              message |-> join(slice(parts, MessageStart), Colon)]
        ELSE NoEvent

PageCountEvent(d) ==
    LET parts == split(d, Colon)
    IN  IF Len(parts) >= MinPageCountParts
        THEN [tag |-> "PageCount",
              clientId |-> At(parts, 1),
              pages |-> parseInt(At(parts, 2))]
        ELSE NoEvent

PageResultEvent(d) ==
    LET parts == split(d, Colon)
    IN  IF Len(parts) >= MinPageResultParts
        THEN [tag |-> "PageResult",
              clientId |-> At(parts, 1),
              pageNum |-> parseInt(At(parts, 2)),
              orientation |-> At(parts, 3),
              aspectRatio |-> parseFloat(At(parts, 4)),
              width |-> parseInt(At(parts, 5)),
              height |-> parseInt(At(parts, 6))]
        ELSE NoEvent

UnknownEvent(d) == [tag |-> "Unknown", raw |-> d]

(***************************************************************************)
(* The chain of prefix tests of socket.onmessage, and the event each       *)
(* branch parses.  Both depend on the line only; they are tabulated once   *)
(* for the lines of the model.                                             *)
(***************************************************************************)
\* a slip: the DETECTION test leaves the colon out
branchOfNoColon(d) ==
    IF startsWith(d, YourIdPrefix) THEN "YourId"
    ELSE IF startsWith(d, SubSeq(DetectionPrefix, 1, Len(DetectionPrefix) - 1))
         THEN "Detection"
    ELSE IF startsWith(d, PageCountPrefix) THEN "PageCount"
    ELSE IF startsWith(d, PageResultPrefix) THEN "PageResult"
    ELSE "Unknown"

\* a slip: the PAGE_RESULT test is missing
branchOfNoPageResult(d) ==
    IF startsWith(d, YourIdPrefix) THEN "YourId"
    ELSE IF startsWith(d, DetectionPrefix) THEN "Detection"
    ELSE IF startsWith(d, PageCountPrefix) THEN "PageCount"
    ELSE "Unknown"

\* a slip: the "Your ID: " test is missing
branchOfNoYourId(d) ==
    IF startsWith(d, DetectionPrefix) THEN "Detection"
    ELSE IF startsWith(d, PageCountPrefix) THEN "PageCount"
    ELSE IF startsWith(d, PageResultPrefix) THEN "PageResult"
    ELSE "Unknown"

branchOf(d) ==
    IF startsWith(d, YourIdPrefix) THEN "YourId"
    ELSE IF startsWith(d, DetectionPrefix) THEN "Detection"
    ELSE IF startsWith(d, PageCountPrefix) THEN "PageCount"
    ELSE IF startsWith(d, PageResultPrefix) THEN "PageResult"
    ELSE "Unknown"

eventOf(d) ==
    IF branchOf(d) = "YourId" THEN IdentityEvent(d)
    ELSE IF branchOf(d) = "Detection" THEN DetectionEvent(d)
    ELSE IF branchOf(d) = "PageCount" THEN PageCountEvent(d)
    ELSE IF branchOf(d) = "PageResult" THEN PageResultEvent(d)
    ELSE UnknownEvent(d)

parsed == [d \in Lines \cup ParseLines |-> [branch |-> branchOf(d), event |-> eventOf(d)]]

(***************************************************************************)
(* updateDetectionUI, addDetectionResult and the unknown-message fallback, *)
(* as functions from the list of <li> children to the new list.  An <li>   *)
(* is its className and the markup assigned to its innerHTML.              *)
(***************************************************************************)
\* Both branches only log: the mismatch branch returns early, the match
\* branch falls off the end.
updateDetectionUI(list, cid, status, confidence, message) ==
    IF cid # currentClientId THEN list ELSE list

\* a slip: the item is inserted before the existing children
addDetectionResultFirst(list, cid, status, confidence, message) ==
    <<[className |-> "result-item", innerHTML |-> message]>> \o list

addDetectionResult(list, cid, status, confidence, message) ==
    Append(list, [className |-> "result-item", innerHTML |-> message])

\* a slip: the markup is assigned to the list instead of a new item
appendUnknownReplaces(list, d) ==
    <<[className |-> "", innerHTML |-> d]>>

appendUnknown(list, d) ==
    Append(list, [className |-> "", innerHTML |-> d])

\* the list after the DETECTION branch has handled event e
DetectionBranch(list, e) ==
    IF e.tag = "Detection"
    THEN addDetectionResult(
             updateDetectionUI(list, e.clientId, e.status, e.confidence, e.message),
             e.clientId, e.status, e.confidence, e.message)
    ELSE list

(***************************************************************************)
(* socket.onmessage = ({ data }) => ...                                    *)
(***************************************************************************)
\* a slip: lines are not dispatched while an upload is in flight
onmessageWhenIdle(d) ==
    /\ socketState = "open"
    /\ pc = "idle"
    /\ data' = d
    /\ event' = parsed[d].event
    /\ IF parsed[d].branch = "YourId"
       THEN /\ myId' = parsed[d].event.id
            /\ UNCHANGED resultsList
       ELSE IF parsed[d].branch = "Detection"
       THEN /\ resultsList' = DetectionBranch(resultsList, parsed[d].event)
            /\ UNCHANGED myId
       ELSE IF parsed[d].branch \in {"PageCount", "PageResult"}
       THEN UNCHANGED <<myId, resultsList>>
       ELSE /\ resultsList' = appendUnknown(resultsList, d)
            /\ UNCHANGED myId
    /\ Len(resultsList') <= MaxResults
    /\ UNCHANGED <<socketState, currentClientId>>
    /\ UNCHANGED uploadVars

onmessage(d) ==
    /\ socketState = "open"
    /\ data' = d
    /\ event' = parsed[d].event
    /\ IF parsed[d].branch = "YourId"
       THEN /\ myId' = parsed[d].event.id
            /\ UNCHANGED resultsList
       ELSE IF parsed[d].branch = "Detection"
       THEN /\ resultsList' = DetectionBranch(resultsList, parsed[d].event)
            /\ UNCHANGED myId
       ELSE IF parsed[d].branch \in {"PageCount", "PageResult"}
       THEN UNCHANGED <<myId, resultsList>>
       ELSE /\ resultsList' = appendUnknown(resultsList, d)
            /\ UNCHANGED myId
    /\ Len(resultsList') <= MaxResults
    /\ UNCHANGED <<socketState, currentClientId>>
    /\ UNCHANGED uploadVars

(***************************************************************************)
(* socket.onopen, socket.onerror, socket.onclose: they only log.  The      *)
(* socket is created once (const socket) and never reopened or written to. *)
(***************************************************************************)
onopen ==
    /\ socketState = "connecting"
    /\ socketState' = "open"
    /\ UNCHANGED dispatcherVars
    /\ UNCHANGED uploadVars

onerror ==
    /\ socketState # "closed"
    /\ UNCHANGED vars

\* a slip: the handler opens a new connection
oncloseReconnects ==
    /\ socketState # "closed"
    /\ socketState' = "connecting"
    /\ UNCHANGED dispatcherVars
    /\ UNCHANGED uploadVars

onclose ==
    /\ socketState # "closed"
    /\ socketState' = "closed"
    /\ UNCHANGED dispatcherVars
    /\ UNCHANGED uploadVars

(***************************************************************************)
(* uploadBtn.onclick = async () => ...                                     *)
(* The handler runs to its first await (fetch), is resumed when fetch      *)
(* settles and runs to its second await (response.json()), and is resumed  *)
(* again when that settles.  A disabled button receives no click.          *)
(***************************************************************************)
NoFileAlert == "Please select a file first"
ServerErrorAlert == "Error: "
CatchAlert == "Error uploading file: "

\* the restoring of the button shared by every exit after the request
restoreButton ==
    /\ uploadBtnText' = ReadyText
    /\ uploadBtnDisabled' = FALSE
    /\ pc' = "idle"
    /\ clientId' = Null

\* a slip: the catch block does not restore the button
catchLeavesButton ==
    /\ alerts' = Append(alerts, CatchAlert)
    /\ pc' = "idle"
    /\ clientId' = Null
    /\ UNCHANGED <<uploadBtnText, uploadBtnDisabled, currentClientId, resultsList>>

\* catch (error) { ... }
catch ==
    /\ alerts' = Append(alerts, CatchAlert)
    /\ restoreButton
    /\ UNCHANGED <<currentClientId, resultsList>>

\* a slip: the filter key is set as soon as the id is generated
onclickSetsId(hasFile, suffix) ==
    /\ ~uploadBtnDisabled
    /\ IF ~hasFile
       THEN /\ alerts' = <<NoFileAlert>>
            /\ UNCHANGED <<pc, clientId, uploadBtnDisabled, uploadBtnText,
                           currentClientId>>
       ELSE /\ alerts' = <<>>
            /\ clientId' = generateClientId(suffix)
            /\ currentClientId' = generateClientId(suffix)
            /\ uploadBtnDisabled' = TRUE
            /\ uploadBtnText' = UploadingText
            /\ pc' = "fetch"
    /\ UNCHANGED <<socketState, data, event, myId, resultsList>>

\* a slip: the button is not disabled before the request is issued
onclickLeavesEnabled(hasFile, suffix) ==
    /\ ~uploadBtnDisabled
    /\ IF ~hasFile
       THEN /\ alerts' = <<NoFileAlert>>
            /\ UNCHANGED <<pc, clientId, uploadBtnDisabled, uploadBtnText>>
       ELSE /\ alerts' = <<>>
            /\ clientId' = generateClientId(suffix)
            /\ uploadBtnText' = UploadingText
            /\ pc' = "fetch"
            /\ UNCHANGED uploadBtnDisabled
    /\ UNCHANGED <<socketState, data, event, myId, currentClientId, resultsList>>

onclick(hasFile, suffix) ==
    /\ ~uploadBtnDisabled
    /\ IF ~hasFile
       THEN /\ alerts' = <<NoFileAlert>>
            /\ UNCHANGED <<pc, clientId, uploadBtnDisabled, uploadBtnText>>
       ELSE /\ alerts' = <<>>
            /\ clientId' = generateClientId(suffix)
            /\ uploadBtnDisabled' = TRUE
            /\ uploadBtnText' = UploadingText
            /\ pc' = "fetch"
    /\ UNCHANGED <<socketState, data, event, myId, currentClientId, resultsList>>

\* how fetch settles: rejected (network error), or resolved with response.ok
FetchOutcomes == {"rejected", "not_ok", "ok"}

fetchSettled(outcome) ==
    /\ pc = "fetch"
    /\ IF outcome = "ok"
       THEN /\ pc' = "json"
            /\ UNCHANGED <<clientId, uploadBtnDisabled, uploadBtnText, alerts,
                           currentClientId, resultsList>>
       ELSE catch
    /\ UNCHANGED <<socketState, data, event, myId>>

\* how response.json() settles: rejected (body is not JSON), or resolved with
\* null, with an object without a truthy error, or with an object with a
\* truthy error and with or without a supported_types array
JsonOutcomes == {"rejected", "null", "no_error", "error_with_types",
                 "error_without_types"}

\* a slip: the list is cleared before the error is looked at
serverErrorClears ==
    /\ alerts' = Append(alerts, ServerErrorAlert)
    /\ restoreButton
    /\ resultsList' = <<>>
    /\ UNCHANGED currentClientId

\* if (result.error) { alert(...); restore; return; }
serverError ==
    /\ alerts' = Append(alerts, ServerErrorAlert)
    /\ restoreButton
    /\ UNCHANGED <<currentClientId, resultsList>>

\* a slip: the list is not cleared
successKeepsList ==
    /\ currentClientId' = clientId
    /\ restoreButton
    /\ UNCHANGED <<resultsList, alerts>>

\* currentClientId = clientId; resultsList.innerHTML = ''; restore
success ==
    /\ currentClientId' = clientId
    /\ resultsList' = <<>>
    /\ restoreButton
    /\ UNCHANGED alerts

\* null.error and undefined.join(...) throw a TypeError inside the try block
jsonSettled(result) ==
    /\ pc = "json"
    /\ IF result \in {"rejected", "null", "error_without_types"} THEN catch
       ELSE IF result = "error_with_types" THEN serverError
       ELSE success
    /\ UNCHANGED <<socketState, data, event, myId>>

(***************************************************************************)
(* The program: the state after the script has loaded, and its handlers    *)
(***************************************************************************)
Init ==
    /\ socketState = "connecting"
    /\ data = Null
    /\ event = NoEvent
    /\ myId = Null
    /\ currentClientId = Null
    /\ resultsList = <<>>
    /\ pc = "idle"
    /\ clientId = Null
    /\ uploadBtnDisabled = FALSE
    /\ uploadBtnText = ReadyText
    /\ alerts = <<>>

Next ==
    \/ onopen
    \/ onerror
    \/ onclose
    \/ \E d \in Lines : onmessage(d)
    \/ \E hasFile \in BOOLEAN, suffix \in RandomSuffixes : onclick(hasFile, suffix)
    \/ \E outcome \in FetchOutcomes : fetchSettled(outcome)
    \/ \E result \in JsonOutcomes : jsonSettled(result)

Spec == Init /\ [][Next]_vars

(***************************************************************************)
(* The parser on every short line: one line is drawn and the open socket   *)
(* delivers it, repeatedly.                                                *)
(***************************************************************************)
ParseInit ==
    /\ socketState = "open"
    /\ data \in ParseLines
    /\ event = NoEvent
    /\ myId = Null
    /\ currentClientId = Null
    /\ resultsList = <<>>
    /\ pc = "idle"
    /\ clientId = Null
    /\ uploadBtnDisabled = FALSE
    /\ uploadBtnText = ReadyText
    /\ alerts = <<>>

ParseNext == onmessage(data)

ParseSpec == ParseInit /\ [][ParseNext]_vars

(***************************************************************************)
(* Vocabulary of the properties                                            *)
(***************************************************************************)
\* the colon-separated fields of every line of the model
fieldsOf == [d \in DOMAIN parsed |-> split(d, Colon)]

\* a step in which socket.onmessage handled the line data'
MessageStep ==
    /\ socketState = "open"
    /\ data' \in DOMAIN parsed
    /\ UNCHANGED <<socketState, pc, clientId, uploadBtnDisabled, uploadBtnText, alerts>>

\* d is a DETECTION line with at least 5 colon-separated fields
IsDetectionLine(d) ==
    /\ startsWith(d, DetectionPrefix)
    /\ Len(fieldsOf[d]) >= 5

\* d begins with one of "DETECTION:", "PAGE_COUNT:", "PAGE_RESULT:"
HasKnownPrefix(d) ==
    \/ startsWith(d, DetectionPrefix)
    \/ startsWith(d, PageCountPrefix)
    \/ startsWith(d, PageResultPrefix)

RECURSIVE AfterNthColon(_, _)
\* what follows the n-th colon of s
AfterNthColon(s, n) ==
    IF n = 0 \/ Len(s) = 0 THEN s
    ELSE IF Head(s) = ":" THEN AfterNthColon(Tail(s), n - 1)
    ELSE AfterNthColon(Tail(s), n)

RECURSIVE AfterFirst(_, _)
\* what follows the first occurrence of sep in s
AfterFirst(s, sep) ==
    IF Len(s) = 0 THEN s
    ELSE IF OccursAt(s, sep, 1) THEN SubSeq(s, Len(sep) + 1, Len(s))
    ELSE AfterFirst(Tail(s), sep)

\* the ': '-separated fields of every line of the model
fieldsOfIdentity == [d \in DOMAIN parsed |-> split(d, ColonSpace)]

\* the step appends exactly one entry, of the given content, at the end
AppendsOne(content) ==
    /\ Len(resultsList') = Len(resultsList) + 1
    /\ SubSeq(resultsList', 1, Len(resultsList)) = resultsList
    /\ resultsList'[Len(resultsList')].innerHTML = content

HasColon(s) == \E i \in 1..Len(s) : s[i] = ":"

LastEntry == resultsList[Len(resultsList)]

(***************************************************************************)
(* C1: dispatching a DETECTION line with at least 5 fields whose clientId  *)
(* field differs from currentClientId (null included) leaves the result    *)
(* list unchanged.                                                         *)
(***************************************************************************)
C1_MismatchLeavesList ==
    [][ (MessageStep /\ IsDetectionLine(data')
            /\ fieldsOf[data'][2] # currentClientId)
        => UNCHANGED resultsList ]_vars

(***************************************************************************)
(* C2: dispatching a DETECTION line with at least 5 fields whose clientId  *)
(* field equals currentClientId appends exactly one entry at the end of    *)
(* the result list, its content being fields 4.. rejoined with ':'; the    *)
(* earlier entries are unchanged.                                          *)
(***************************************************************************)
C2_MatchAppendsMessage ==
    [][ (MessageStep /\ IsDetectionLine(data')
            /\ fieldsOf[data'][2] = currentClientId)
        => AppendsOne(join(slice(fieldsOf[data'], 4), Colon)) ]_vars

C2_Witness ==
    /\ event.tag = "Detection"
    /\ event.clientId = currentClientId
    /\ Len(resultsList) = 2
    /\ LastEntry.innerHTML = event.message
    /\ HasColon(event.message)

(***************************************************************************)
(* C3, as stated: currentClientId is set when an upload begins (a click    *)
(* with a file that generates an id and issues the request) and by nothing *)
(* else, so that it always equals the id of the upload begun last.         *)
(***************************************************************************)
UploadBegins == pc = "idle" /\ pc' = "fetch"

C3_SetWhenUploadBegins ==
    [][ /\ UploadBegins => currentClientId' = clientId'
        /\ ~UploadBegins => UNCHANGED currentClientId ]_vars

(***************************************************************************)
(* C3, amended: currentClientId is set each time an upload completes       *)
(* successfully, to the id generated for that upload, and by nothing else: *)
(* an upload in flight or failed leaves it as it was, and it always equals *)
(* the id of the upload that succeeded last (null before the first).       *)
(***************************************************************************)
\* the handler returns without having raised an alert
UploadSucceeds == pc = "json" /\ pc' = "idle" /\ alerts' = <<>>

C3_SetWhenUploadSucceeds ==
    [][ /\ UploadSucceeds => currentClientId' = clientId
        /\ ~UploadSucceeds => UNCHANGED currentClientId ]_vars

\* an earlier upload has succeeded and a newer one, with another id, is in
\* flight
C3_Witness ==
    /\ currentClientId \in GeneratedIds
    /\ pc = "fetch"
    /\ clientId \in GeneratedIds
    /\ clientId # currentClientId

(***************************************************************************)
(* C4: after a line beginning with "Your ID: " has been dispatched, myId   *)
(* is everything that follows the first ": " of the line.                  *)
(***************************************************************************)
C4_IdentityIsRemainder ==
    (data # Null /\ startsWith(data, YourIdPrefix))
        => myId = AfterFirst(data, ColonSpace)

(***************************************************************************)
(* C5, as stated: a line that does not begin with "DETECTION:",            *)
(* "PAGE_COUNT:" or "PAGE_RESULT:" is appended verbatim as one new entry   *)
(* at the end of the result list.                                          *)
(***************************************************************************)
C5_NoKnownPrefixAppended ==
    [][ (MessageStep /\ ~HasKnownPrefix(data')) => AppendsOne(data') ]_vars

(***************************************************************************)
(* C5, amended: a line that begins neither with "Your ID: " nor with       *)
(* "DETECTION:", "PAGE_COUNT:" or "PAGE_RESULT:" is appended verbatim as   *)
(* one new entry at the end of the result list.                            *)
(***************************************************************************)
C5_UnknownAppended ==
    [][ (MessageStep /\ ~HasKnownPrefix(data')
            /\ ~startsWith(data', YourIdPrefix))
        => AppendsOne(data') ]_vars

\* "DETECTION", without the colon, has been appended after another entry
C5_Witness ==
    /\ data = SubSeq(DetectionPrefix, 1, Len(DetectionPrefix) - 1)
    /\ Len(resultsList) = 2
    /\ LastEntry.innerHTML = data

(***************************************************************************)
(* C6: dispatching a line that begins with "PAGE_COUNT:" or                *)
(* "PAGE_RESULT:", whatever its fields, leaves the result list, myId and   *)
(* currentClientId unchanged.                                              *)
(***************************************************************************)
C6_PageLinesChangeNothing ==
    [][ (MessageStep /\ (\/ startsWith(data', PageCountPrefix)
                         \/ startsWith(data', PageResultPrefix)))
        => UNCHANGED <<resultsList, myId, currentClientId>> ]_vars

\* a PAGE_RESULT line with unparseable numbers has been dispatched while the
\* list, myId and currentClientId were all set
C6_Witness ==
    /\ event.tag = "PageResult"
    /\ event.pageNum = NaN
    /\ event.width = NaN
    /\ resultsList # <<>>
    /\ myId # Null
    /\ currentClientId # Null

(***************************************************************************)
(* C7: for a DETECTION line with at least 5 colon-separated fields, the    *)
(* parsed message, join(split(s, ':')[4:], ':'), is what follows the 4th   *)
(* colon of the line, inner colons included.                               *)
(***************************************************************************)
C7_MessageIsAfterFourthColon ==
    event.tag = "Detection" => event.message = AfterNthColon(data, 4)

\* a parsed message that itself holds a colon
C7_Witness ==
    /\ event.tag = "Detection"
    /\ event.message = <<":", "a">>
    /\ data = DetectionPrefix \o <<":", ":", ":", ":", "a">>

(***************************************************************************)
(* C8: a line beginning with "DETECTION:" that has fewer than 5            *)
(* colon-separated fields is dropped: nothing is dispatched, and the       *)
(* result list (no fallback entry), myId and currentClientId are unchanged.*)
(***************************************************************************)
C8_ShortDetectionDropped ==
    [][ (MessageStep /\ startsWith(data', DetectionPrefix)
            /\ Len(fieldsOf[data']) < 5)
        => /\ event' = NoEvent
           /\ UNCHANGED <<resultsList, myId, currentClientId>> ]_vars

\* a DETECTION line of 4 fields has been dispatched while the list, myId and
\* currentClientId were all set
C8_Witness ==
    /\ startsWith(data, DetectionPrefix)
    /\ Len(fieldsOf[data]) = 4
    /\ event = NoEvent
    /\ resultsList # <<>>
    /\ myId # Null
    /\ currentClientId # Null

(***************************************************************************)
(* C9: a DETECTION line with at least 5 fields whose confidence field is   *)
(* not a number is still dispatched, with a NaN confidence: the result     *)
(* list becomes what the same line with a parseable confidence would make  *)
(* it, and gains one entry when the clientId field equals currentClientId. *)
(***************************************************************************)
HasNaNConfidence(d) == IsDetectionLine(d) /\ parseFloat(fieldsOf[d][4]) = NaN

\* the lines that differ from d in the confidence field only, and parse
Twins(d) ==
    { t \in Lines :
        /\ IsDetectionLine(t)
        /\ Len(fieldsOf[t]) = Len(fieldsOf[d])
        /\ \A i \in 1..Len(fieldsOf[d]) : i # 4 => fieldsOf[t][i] = fieldsOf[d][i]
        /\ parseFloat(fieldsOf[t][4]) # NaN }

C9_NaNConfidenceStillDispatched ==
    [][ (MessageStep /\ HasNaNConfidence(data'))
        => /\ event'.tag = "Detection"
           /\ event'.confidence = NaN
           /\ Twins(data') # {}
           /\ \A t \in Twins(data') :
                 resultsList' = DetectionBranch(resultsList, parsed[t].event)
           /\ fieldsOf[data'][2] = currentClientId
                 => AppendsOne(AfterNthColon(data', 4)) ]_vars

C9_Witness ==
    /\ event.tag = "Detection"
    /\ event.confidence = NaN
    /\ event.clientId = currentClientId
    /\ Len(resultsList) = 2
    /\ LastEntry.innerHTML = event.message

(***************************************************************************)
(* C10: when the response or the failure of a started upload arrives, the  *)
(* handler either goes on to read the body of an ok response (button still *)
(* disabled) or returns with the button enabled and labelled               *)
(* 'Upload & Analyze'; a return on failure has raised exactly one alert    *)
(* and changed nothing else, a return on success none; and a request is    *)
(* only ever issued by a click on the enabled button, never by the handler *)
(* resuming.                                                               *)
(***************************************************************************)
HandlerResumes == pc # "idle" /\ uploadVars' # uploadVars

ButtonReady == ~uploadBtnDisabled /\ uploadBtnText = ReadyText

C10_EveryOutcomeRestoresButton ==
    [][ /\ HandlerResumes =>
              \/ /\ pc = "fetch" /\ pc' = "json"
                 /\ UNCHANGED <<alerts, uploadBtnDisabled, uploadBtnText, clientId,
                                currentClientId, resultsList>>
              \/ /\ pc' = "idle" /\ ButtonReady'
                 /\ Len(alerts') = 1
                 /\ UNCHANGED <<currentClientId, resultsList>>
              \/ /\ pc = "json" /\ pc' = "idle" /\ ButtonReady'
                 /\ alerts' = <<>>
                 /\ currentClientId' = clientId
        /\ (pc # "fetch" /\ pc' = "fetch") => (pc = "idle" /\ ButtonReady) ]_vars

\* an upload has failed in the catch block and the button is ready again
C10_Witness ==
    /\ pc = "idle"
    /\ alerts = <<CatchAlert>>
    /\ ButtonReady
    /\ clientId = Null

(***************************************************************************)
(* C11, as stated: myId is set once and is read-only thereafter: once a    *)
(* "Your ID: " line has assigned it, no later step (a second "Your ID: "   *)
(* line included) changes it.                                              *)
(***************************************************************************)
C11_IdentitySetOnce ==
    [][ myId # Null => UNCHANGED myId ]_vars

(***************************************************************************)
(* C11, amended: the only step that changes myId, be it unset or already   *)
(* assigned, is the dispatch of a "Your ID: " line, which sets it to that  *)
(* line's id; no other inbound line and no upload action changes it.       *)
(***************************************************************************)
C11_IdentityOnlyOverwritten ==
    [][ myId' # myId
        => /\ MessageStep
           /\ startsWith(data', YourIdPrefix)
           /\ myId' = fieldsOfIdentity[data'][2] ]_vars

\* myId is set and, since, a DETECTION line has been dispatched and an upload
\* has succeeded and another is in flight
C11_Witness ==
    /\ myId # Null
    /\ event.tag = "Detection"
    /\ currentClientId # Null
    /\ pc = "json"

(***************************************************************************)
(* C12: no line changes currentClientId; a "Your ID: " line changes        *)
(* neither the result list nor currentClientId; and a line that changes    *)
(* myId begins with "Your ID: ".                                           *)
(***************************************************************************)
C12_BranchesOwnTheirState ==
    [][ MessageStep
        => /\ UNCHANGED currentClientId
           /\ startsWith(data', YourIdPrefix) => UNCHANGED resultsList
           /\ myId' # myId => startsWith(data', YourIdPrefix) ]_vars

\* a "Your ID: " line has been dispatched while the list and currentClientId
\* were set
C12_Witness ==
    /\ event.tag = "IdentityAnnounced"
    /\ myId = event.id
    /\ Len(resultsList) = 2
    /\ currentClientId # Null

(***************************************************************************)
(* C13: a dispatch either leaves the result list as it is or appends one   *)
(* entry at its end, whose content is the dispatched line or its message;  *)
(* it never removes, reorders or rewrites an entry.  The only other change *)
(* of the list is its clearing by a successful upload.  Hence, between two *)
(* clears, the list holds the appended contents in arrival order.          *)
(***************************************************************************)
C13_DispatchOnlyAppends ==
    [][ /\ MessageStep
            => \/ UNCHANGED resultsList
               \/ AppendsOne(data')
               \/ IsDetectionLine(data') /\ AppendsOne(AfterNthColon(data', 4))
        /\ (resultsList' # resultsList /\ ~MessageStep)
            => (UploadSucceeds /\ resultsList' = <<>>) ]_vars

\* an unknown line and then a DETECTION line have been dispatched
C13_Witness ==
    /\ Len(resultsList) = 2
    /\ resultsList[1].innerHTML = <<"h", "i">>
    /\ resultsList[2].innerHTML = <<"o", "k", ":", "x">>
    /\ event.tag = "Detection"

(***************************************************************************)
(* Vocabulary of the two flows                                             *)
(***************************************************************************)
\* a step of uploadBtn.onclick: a click, or the handler resuming
UploadStep == uploadVars' # uploadVars

\* a step that changes what socket.onmessage writes
DispatchChange ==
    \/ <<data, event, myId>>' # <<data, event, myId>>
    \/ Len(resultsList') > Len(resultsList)

\* the lines whose dispatch never grows the list
QuietLines == IdentityLines \cup PageLines

\* with the socket open every line can be dispatched (a line that grows the
\* list, as long as the list has room in this model)
DispatchEnabled ==
    socketState = "open"
        => /\ \A d \in QuietLines : ENABLED onmessage(d)
           /\ Len(resultsList) < MaxResults
                 => \A d \in Lines : ENABLED onmessage(d)

(***************************************************************************)
(* C14, as stated: while a request is in flight inbound lines are still    *)
(* dispatched, a dispatch changes nothing of the upload flow, and the only *)
(* state the upload flow shares with the dispatcher is currentClientId:    *)
(* of what the dispatcher reads or writes, an upload step changes nothing  *)
(* else.                                                                   *)
(***************************************************************************)
C14_OnlyClientIdShared ==
    /\ []DispatchEnabled
    /\ [][ /\ DispatchChange => UNCHANGED uploadVars
           /\ UploadStep => UNCHANGED <<data, event, myId, resultsList>> ]_vars

(***************************************************************************)
(* C14, amended: while a request is in flight inbound lines are still      *)
(* dispatched, a dispatch changes nothing of the upload flow, and the      *)
(* state the upload flow shares with the dispatcher is currentClientId and *)
(* the result list, which a successful upload empties: of what the         *)
(* dispatcher reads or writes, an upload step changes nothing else.        *)
(***************************************************************************)
C14_ClientIdAndListShared ==
    /\ []DispatchEnabled
    /\ [][ /\ DispatchChange => UNCHANGED uploadVars
           /\ UploadStep
               => /\ UNCHANGED <<data, event, myId>>
                  /\ resultsList' # resultsList
                        => (UploadSucceeds /\ resultsList' = <<>>) ]_vars

\* a DETECTION line for the id of the upload in flight has been dispatched
C14_Witness ==
    /\ pc = "fetch"
    /\ event.tag = "Detection"
    /\ event.clientId = clientId
    /\ resultsList # <<>>
    /\ LastEntry.innerHTML = event.message

(***************************************************************************)
(* C15: no step begins a new connection, and once the socket has closed    *)
(* it stays closed and no line is dispatched any more, so that data, event *)
(* and myId no longer change, and the result list changes only by the      *)
(* clearing of a successful upload.                                        *)
(***************************************************************************)
C15_ClosedIsTerminal ==
    [][ /\ socketState' = "connecting" => socketState = "connecting"
        /\ socketState = "closed"
            => /\ socketState' = "closed"
               /\ UNCHANGED <<data, event, myId>>
               /\ resultsList' # resultsList
                     => (UploadSucceeds /\ resultsList' = <<>>) ]_vars

\* the socket has closed after lines were dispatched, and an upload has
\* succeeded and cleared the list
C15_Witness ==
    /\ socketState = "closed"
    /\ myId # Null
    /\ event.tag = "Unknown"
    /\ resultsList = <<>>
    /\ currentClientId # Null
    /\ pc = "idle"

(***************************************************************************)
(* C16: the button is disabled in exactly the states in which a request    *)
(* is in flight, and an upload begins only by a click on the enabled       *)
(* button; so at most one request is in flight.                            *)
(***************************************************************************)
InFlight == pc # "idle"

C16_DisabledIffInFlight ==
    [][ /\ uploadBtnDisabled <=> InFlight
        /\ uploadBtnDisabled' <=> InFlight'
        /\ (clientId' # clientId /\ clientId' # Null)
              => (~uploadBtnDisabled /\ ~InFlight) ]_vars

C16_Witness ==
    /\ pc = "json"
    /\ uploadBtnDisabled
    /\ uploadBtnText = UploadingText
    /\ clientId \in GeneratedIds

(***************************************************************************)
(* C17: an upload step other than a successful completion (a click without *)
(* a file, the start of a request, a network error, a non-ok status, an    *)
(* unparseable body, a server-reported error) changes neither              *)
(* currentClientId, myId nor the result list.                              *)
(***************************************************************************)
C17_FailedUploadChangesNothing ==
    [][ (UploadStep /\ ~UploadSucceeds)
        => UNCHANGED <<currentClientId, myId, resultsList>> ]_vars

\* a server-reported error has been handled while all three were set
C17_Witness ==
    /\ pc = "idle"
    /\ alerts = <<ServerErrorAlert>>
    /\ currentClientId # Null
    /\ myId # Null
    /\ Len(resultsList) = 2

(***************************************************************************)
(* C18: a successful completion sets, in one step, currentClientId to the  *)
(* id generated for that upload and empties the result list, whatever was  *)
(* appended while the request was in flight; any other step keeps the      *)
(* entries the list has and at most appends one.                           *)
(***************************************************************************)
C18_SuccessSetsIdAndClears ==
    [][ /\ UploadSucceeds
            => /\ currentClientId' = clientId
               /\ resultsList' = <<>>
        /\ ~UploadSucceeds
            => /\ Len(resultsList') \in {Len(resultsList), Len(resultsList) + 1}
               /\ SubSeq(resultsList', 1, Len(resultsList)) = resultsList ]_vars

\* the line dispatched last was a DETECTION line for the upload that has
\* since succeeded: its entry is gone
C18_Witness ==
    /\ pc = "idle"
    /\ alerts = <<>>
    /\ event.tag = "Detection"
    /\ event.clientId = currentClientId
    /\ resultsList = <<>>

====
